---- MODULE Spec2Model ----
(***************************************************************************)
(* A model of baboossh/creds.py: the Creds class, the creds table it       *)
(* reads and writes, the Unique instance cache it is built through, and    *)
(* the Connection rows its delete() cascades to.                           *)
(*                                                                         *)
(* One action per call of a public entry point; a call is atomic, as the   *)
(* program is single-threaded and every statement is committed at once.    *)
(* The variable last records what the latest call was given, what it saw   *)
(* and what it gave back, so that statements about one call are state      *)
(* predicates.                                                             *)
(***************************************************************************)
EXTENDS Integers, Sequences, FiniteSets, TLC

VARIABLES
    rows,     \* the creds table: id -> [type, content, identifier, scope, found]
    store,    \* the Unique cache of Creds instances: key -> instance
    conns,    \* the connections table: connection id -> the creds id it references
    last      \* the latest call: operation, arguments, outcome, steps taken

vars == <<rows, store, conns, last>>

-----------------------------------------------------------------------------
(* Bounds of the model *)

MaxId == 2          \* the creds table holds ids 1..MaxId
MaxSecret == 2      \* secrets a password credential may carry
MaxEndpoint == 1    \* endpoints 1..MaxEndpoint exist
MaxConn == 2        \* the connections table holds ids 1..MaxConn

-----------------------------------------------------------------------------
(* Values *)

\* Python's None, and SQL's NULL in a nullable integer column; ids start at 1.
None == 0

Types == {"password"}
Users == {"a", "b"}
Secrets == 1..MaxSecret
Endpoints == 1..MaxEndpoint

\* Serialized content of a credential: <<user, secret>>, "user:pass" in the code.
Contents == {c \in Users \X Secrets : c[1] = "a" \/ c[2] = 1}

\* Extensions.getAuthMethod(credsType)(credsContent): the codec object parsed
\* from the serialized content.
AuthMethod(credsType, credsContent) ==
    [user |-> credsContent[1], secret |-> credsContent[2]]

\* obj.identifier: the identity the codec derives (the user of a password).
Identifier(obj) == obj.user

\* obj.serialize()
Serialize(obj) == <<obj.user, obj.secret>>

\* hashlib.sha256(s.encode()).hexdigest(), taken as collision free.
Sha256(s) == "sha256:" \o s

\* get_id, were it to hash the serialized content in place of the identifier.
get_id_of_content(credsType, credsContent) ==
    Sha256(credsType \o credsContent[1] \o ":" \o ToString(credsContent[2]))

\* Creds.get_id: the fingerprint, and the key of the Unique cache.
get_id(credsType, credsContent) ==
    Sha256(credsType \o Identifier(AuthMethod(credsType, credsContent)))

\* What sqlite stores for a Python bool bound to a parameter.
SqlBool(b) == IF b THEN 1 ELSE 0

-----------------------------------------------------------------------------
(* The creds table *)

Min(S) == CHOOSE x \in S : \A y \in S : x <= y
Max(S) == CHOOSE x \in S : \A y \in S : x >= y

\* ids of the rows WHERE type=? AND identifier=?
ByIdentity(rs, t, ident) ==
    {i \in DOMAIN rs : rs[i].type = t /\ rs[i].identifier = ident}

\* fetchone() of that query: the first row in storage order, None when empty.
FetchOneId(rs, t, ident) ==
    IF ByIdentity(rs, t, ident) = {} THEN None ELSE Min(ByIdentity(rs, t, ident))

\* The rowid an INSERT assigns (INTEGER PRIMARY KEY): one past the largest.
NextId(rs) == IF DOMAIN rs = {} THEN 1 ELSE Max(DOMAIN rs) + 1

\* The tuple of values save() binds to its statement.
RowOf(self) ==
    [type |-> self.credsType,
     content |-> self.credsContent,
     identifier |-> Identifier(self.obj),
     scope |-> SqlBool(self.scope),
     found |-> self.found]

Extend(f, k, v) == [x \in DOMAIN f \cup {k} |-> IF x = k THEN v ELSE f[x]]

-----------------------------------------------------------------------------
(* Creds.__init__ *)

\* Endpoint.find_one(endpoint_id): the Endpoint of that id, None when absent.
EndpointFindOne(e) == IF e \in Endpoints THEN e ELSE None

\* __init__, were it to skip the lookup of the saved row.
CredsInitFresh(rs, credsType, credsContent) ==
    [credsType |-> credsType,
     credsContent |-> credsContent,
     obj |-> AuthMethod(credsType, credsContent),
     id |-> None,
     scope |-> TRUE,
     found |-> None]

CredsInit(rs, credsType, credsContent) ==
    LET obj == AuthMethod(credsType, credsContent)
        saved == FetchOneId(rs, credsType, Identifier(obj))
    IN  [credsType |-> credsType,
         credsContent |-> credsContent,
         obj |-> obj,
         id |-> IF saved # None THEN saved ELSE None,
         scope |-> IF saved # None THEN rs[saved].scope # 0 ELSE TRUE,
         found |-> IF saved # None /\ rs[saved].found # None
                   THEN EndpointFindOne(rs[saved].found) ELSE None]

\* Unique.__call__: one instance per get_id key; __init__ runs on a miss only.
UniqueCall(st, rs, credsType, credsContent) ==
    LET k == get_id(credsType, credsContent)
    IN  IF k \in DOMAIN st THEN st
        ELSE Extend(st, k, CredsInit(rs, credsType, credsContent))

-----------------------------------------------------------------------------
(* Creds.save *)

\* save(), were its UPDATE to insert the row when no row has the id.
SaveRowsUpsert(rs, self) ==
    IF self.id # None
    THEN Extend(rs, self.id, RowOf(self))
    ELSE Extend(rs, NextId(rs), RowOf(self))

\* The table after save(): UPDATE ... WHERE id = ? when the instance has an
\* id (no row is touched when none has that id), INSERT otherwise.
SaveRows(rs, self) ==
    IF self.id # None
    THEN IF self.id \in DOMAIN rs
         THEN [rs EXCEPT ![self.id] = RowOf(self)]
         ELSE rs
    ELSE Extend(rs, NextId(rs), RowOf(self))

\* self.id after save(): kept on the UPDATE path, re-read by (type,
\* identifier) on the INSERT path.
SaveId(rs, self) ==
    IF self.id # None
    THEN self.id
    ELSE FetchOneId(SaveRows(rs, self), self.credsType, Identifier(self.obj))

SaveSteps(self) ==
    IF self.id # None
    THEN <<"cursor", "update", "close", "commit">>
    ELSE <<"cursor", "insert", "close", "cursor", "select", "close", "commit">>

\* The INSERT needs a free rowid within the bound of the model.
CanSave(rs, self) == self.id # None \/ NextId(rs) <= MaxId

-----------------------------------------------------------------------------
(* Creds.delete and its collaborators *)

RECURSIVE SetToSeq(_)
\* The elements of a set of integers in increasing order.
SetToSeq(S) ==
    IF S = {} THEN << >> ELSE <<Min(S)>> \o SetToSeq(S \ {Min(S)})

\* Connection.find_all(creds=self): the connections that reference the creds
\* id, in storage order.
ConnectionFindAll(cs, self) ==
    SetToSeq({n \in DOMAIN cs : cs[n] = self.id})

\* del_data = {}: the report with no kind in it.
NoReport == << >>

\* What Connection.delete() reports for connection n.
ConnectionReport(n) == [kind \in {"Connection"} |-> {n}]

\* unstore_targets_merge(original, new_data): per kind, the union of both.
unstore_targets_merge(original, new_data) ==
    [kind \in DOMAIN original \cup DOMAIN new_data |->
        IF kind \in DOMAIN original /\ kind \in DOMAIN new_data
        THEN original[kind] \cup new_data[kind]
        ELSE IF kind \in DOMAIN new_data THEN new_data[kind]
        ELSE original[kind]]

RECURSIVE MergeAll(_, _)
\* del_data after the loop over the first n connections of the sequence.
MergeAll(found, n) ==
    IF n = 0 THEN NoReport
    ELSE unstore_targets_merge(MergeAll(found, n - 1), ConnectionReport(found[n]))

\* The loop, were it to stop after the first connection.
ConnsAfterFirst(cs, found, n) ==
    [x \in DOMAIN cs \ {found[j] : j \in 1..(IF n > 1 THEN 1 ELSE n)} |-> cs[x]]

\* The connections table after the first n of the sequence were deleted.
ConnsAfter(cs, found, n) ==
    [x \in DOMAIN cs \ {found[j] : j \in 1..n} |-> cs[x]]

\* The table after DELETE FROM creds WHERE id = ?
DeleteRow(rs, id) == [x \in DOMAIN rs \ {id} |-> rs[x]]

\* The report, were the fingerprint in it to hash the serialized content.
DeleteReportOfContent(cs, self) ==
    LET found == ConnectionFindAll(cs, self)
    IN  unstore_targets_merge(
            MergeAll(found, Len(found)),
            [kind \in {"Creds"} |->
                {get_id_of_content(self.credsType, self.credsContent)}])

\* The report delete() returns once every step has run.
DeleteReport(cs, self) ==
    LET found == ConnectionFindAll(cs, self)
    IN  unstore_targets_merge(
            MergeAll(found, Len(found)),
            [kind \in {"Creds"} |-> {get_id(self.credsType, self.credsContent)}])

\* The steps, were the row removed before the cascade.
DeleteStepsRowFirst(found, n) ==
    <<"enumerate", "cursor", "row_delete", "close", "commit">>
    \o [j \in 1..n |-> "connection_delete"]
    \o (IF n = Len(found)
        THEN <<"obj_delete", "merge">>
        ELSE <<"connection_delete_raises">>)

\* The statements delete() runs past its early return, in program order.
DeleteSteps(found, n) ==
    <<"enumerate">> \o [j \in 1..n |-> "connection_delete"]
    \o (IF n = Len(found)
        THEN <<"obj_delete", "cursor", "row_delete", "close", "commit", "merge">>
        ELSE <<"connection_delete_raises">>)

-----------------------------------------------------------------------------
(* Creds.find_all, Creds.find_one *)

PyBool(scope) == scope = "True"

\* ids of the rows the query of find_all selects, for found = None.
FindAllIds(rs, scope) ==
    IF scope = "None" THEN DOMAIN rs
    ELSE {i \in DOMAIN rs : rs[i].scope = SqlBool(PyBool(scope))}

RECURSIVE StoreAfter(_, _, _, _)
\* The cache after Creds(row[0], row[1]) was called for the first n rows.
StoreAfter(st, rs, ids, n) ==
    IF n = 0 THEN st
    ELSE UniqueCall(StoreAfter(st, rs, ids, n - 1), rs,
                    rs[ids[n]].type, rs[ids[n]].content)

\* ret: the instance (by its cache key) built for each selected row, in order.
FindAllRet(rs, ids) ==
    [j \in 1..Len(ids) |-> get_id(rs[ids[j]].type, rs[ids[j]].content)]

-----------------------------------------------------------------------------
(* The record of a call *)

\* The pattern construct(t, c); save; construct(t, c); save on one instance:
\* how many of its calls the latest calls make up, the (t, c) it is about, and
\* whether its first save took the INSERT path.
\* The arguments and the result of a call, each kind in a field of its own.
NoArg == [t |-> "", c |-> <<"", None>>, scope |-> "", found |-> None, id |-> None]
NoValue == [ref |-> "", list |-> << >>, report |-> NoReport]

NoScenario == [phase |-> 0, arg |-> NoArg, inserted |-> FALSE]

ScenarioAfter(op, self, arg, steps) ==
    IF op = "construct"
    THEN IF last.scenario.phase = 2 /\ last.scenario.arg = arg
         THEN [last.scenario EXCEPT !.phase = 3]
         ELSE [phase |-> 1, arg |-> arg, inserted |-> FALSE]
    ELSE IF op = "save" /\ last.op = "construct" /\ last.self = self
              /\ last.scenario.phase \in {1, 3}
         THEN [phase |-> last.scenario.phase + 1,
               arg |-> last.scenario.arg,
               inserted |-> IF last.scenario.phase = 1
                            THEN steps[2] = "insert"
                            ELSE last.scenario.inserted]
         ELSE NoScenario

\* The instance whose delete() completed last and that is still in the cache
\* ("" when there is none): the caller is to discard it.
DeadAfter(op, self, returned) ==
    IF op = "delete" /\ returned = "report" THEN self
    ELSE IF op = "restart" \/ (op = "unstore" /\ self = last.dead) THEN ""
    ELSE last.dead

Call(op, self, arg, err, returned, value, steps) ==
    [op |-> op, self |-> self, arg |-> arg, err |-> err,
     returned |-> returned, value |-> value, steps |-> steps,
     again |-> (op = last.op /\ self = last.self /\ last.err = "none"),
     scenario |-> ScenarioAfter(op, self, arg, steps),
     dead |-> DeadAfter(op, self, returned)]

Init ==
    /\ rows = << >>
    /\ store = << >>
    /\ conns = << >>
    /\ last = [op |-> "start", self |-> "", arg |-> NoArg, err |-> "none",
               returned |-> "None", value |-> NoValue, steps |-> << >>,
               again |-> FALSE, scenario |-> NoScenario, dead |-> ""]

\* Creds(credsType, credsContent)
Construct(t, c) ==
    /\ store' = UniqueCall(store, rows, t, c)
    /\ last' = Call("construct", get_id(t, c), [NoArg EXCEPT !.t = t, !.c = c],
                    "none", "ref", [NoValue EXCEPT !.ref = get_id(t, c)],
                    IF get_id(t, c) \in DOMAIN store THEN << >>
                    ELSE <<"cursor", "select", "close">>)
    /\ UNCHANGED <<rows, conns>>

\* self.save()
Save(k) ==
    /\ k \in DOMAIN store
    /\ CanSave(rows, store[k])
    /\ rows' = SaveRows(rows, store[k])
    /\ store' = [store EXCEPT ![k].id = SaveId(rows, store[k])]
    /\ last' = Call("save", k, NoArg, "none", "None", NoValue, SaveSteps(store[k]))
    /\ UNCHANGED conns

\* The instance after obj.edit() left the codec object holding content c and
\* credsContent was set to obj.serialize().
Edited(self, c) ==
    [self EXCEPT !.obj = AuthMethod(self.credsType, c),
                 !.credsContent = Serialize(AuthMethod(self.credsType, c))]

\* self.edit(), the user leaving the codec object with content c
Edit(k, c) ==
    /\ k \in DOMAIN store
    /\ CanSave(rows, Edited(store[k], c))
    /\ rows' = SaveRows(rows, Edited(store[k], c))
    /\ store' = [store EXCEPT
                    ![k] = [Edited(store[k], c) EXCEPT
                               !.id = SaveId(rows, Edited(store[k], c))]]
    /\ last' = Call("edit", k, [NoArg EXCEPT !.c = c], "none", "None", NoValue,
                    <<"obj_edit", "serialize">> \o SaveSteps(store[k]))
    /\ UNCHANGED conns

\* A caller assigning the public attribute scope of an instance.
SetScope(k, scope) ==
    /\ k \in DOMAIN store
    /\ store[k].scope # scope
    /\ store' = [store EXCEPT ![k].scope = scope]
    /\ last' = Call("set_scope", k,
                    [NoArg EXCEPT !.scope = IF scope THEN "True" ELSE "False"],
                    "none", "None", NoValue, << >>)
    /\ UNCHANGED <<rows, conns>>

\* A caller assigning the public attribute found of an instance.
SetFound(k, found) ==
    /\ k \in DOMAIN store
    /\ store[k].found # found
    /\ store' = [store EXCEPT ![k].found = found]
    /\ last' = Call("set_found", k, [NoArg EXCEPT !.found = found],
                    "none", "None", NoValue, << >>)
    /\ UNCHANGED <<rows, conns>>

\* A Connection using the credential is saved: it references the creds id.
Connect(k) ==
    /\ k \in DOMAIN store
    /\ store[k].id # None
    /\ NextId(conns) <= MaxConn
    /\ conns' = Extend(conns, NextId(conns), store[k].id)
    /\ last' = Call("connect", k, NoArg, "none", "None", NoValue, << >>)
    /\ UNCHANGED <<rows, store>>

\* self.delete() on an instance with no id: the early return.
DeleteUnsaved(k) ==
    /\ k \in DOMAIN store
    /\ store[k].id = None
    /\ last' = Call("delete", k, NoArg, "none", "None", NoValue, << >>)
    /\ UNCHANGED <<rows, store, conns>>

\* delete(), were it to remove the credential's row before the cascade.
DeleteSavedRowFirst(k, n) ==
    /\ k \in DOMAIN store
    /\ store[k].id # None
    /\ LET found == ConnectionFindAll(conns, store[k])
       IN  /\ n \in 0..Len(found)
           /\ conns' = ConnsAfter(conns, found, n)
           /\ rows' = DeleteRow(rows, store[k].id)
           /\ IF n = Len(found)
              THEN last' = Call("delete", k, NoArg, "none", "report",
                                [NoValue EXCEPT
                                    !.report = DeleteReport(conns, store[k])],
                                DeleteSteps(found, n))
              ELSE last' = Call("delete", k, NoArg, "ConnectionError", "raised",
                                NoValue, DeleteSteps(found, n))
    /\ UNCHANGED store

\* self.delete() on an instance with an id; the first n connections are
\* deleted, and the next one's delete() raises when there is one.
DeleteSaved(k, n) ==
    /\ k \in DOMAIN store
    /\ store[k].id # None
    /\ LET found == ConnectionFindAll(conns, store[k])
       IN  /\ n \in 0..Len(found)
           /\ conns' = ConnsAfter(conns, found, n)
           /\ IF n = Len(found)
              THEN /\ rows' = DeleteRow(rows, store[k].id)
                   /\ last' = Call("delete", k, NoArg, "none", "report",
                                   [NoValue EXCEPT
                                       !.report = DeleteReport(conns, store[k])],
                                   DeleteSteps(found, n))
              ELSE /\ rows' = rows
                   /\ last' = Call("delete", k, NoArg, "ConnectionError", "raised",
                                   NoValue, DeleteSteps(found, n))
    /\ UNCHANGED store

\* The caller of a delete() that returned its report discards the instance:
\* it leaves the cache, and the next construction of its key builds anew.
Unstore(k) ==
    /\ k \in DOMAIN store
    /\ last.op = "delete" /\ last.self = k /\ last.returned = "report"
    /\ store' = [x \in DOMAIN store \ {k} |-> store[x]]
    /\ last' = Call("unstore", k, NoArg, "none", "None", NoValue, << >>)
    /\ UNCHANGED <<rows, conns>>

\* The process ends and another starts on the same workspace: the table
\* stays, the cache of instances starts empty.
Restart ==
    /\ store # << >>
    /\ store' = << >>
    /\ last' = Call("restart", "", NoArg, "none", "None", NoValue, << >>)
    /\ UNCHANGED <<rows, conns>>

\* Another process on the same workspace runs Creds(t, c).save(): its own
\* __init__ looks the identity up, its save() updates or inserts.
OtherSave(t, c) ==
    /\ CanSave(rows, CredsInit(rows, t, c))
    /\ rows' = SaveRows(rows, CredsInit(rows, t, c))
    /\ last' = Call("other_save", "", [NoArg EXCEPT !.t = t, !.c = c],
                    "none", "None", NoValue,
                    <<"cursor", "select", "close">>
                        \o SaveSteps(CredsInit(rows, t, c)))
    /\ UNCHANGED <<store, conns>>

\* Creds.find_all(scope=scope, found=found)
FindAll(scope, found) ==
    /\ IF found # None
       THEN \* the query is built from an undefined name, endpoint
            /\ store' = store
            /\ last' = Call("find_all", "",
                            [NoArg EXCEPT !.scope = scope, !.found = found],
                            "NameError", "raised", NoValue, <<"cursor">>)
       ELSE LET ids == SetToSeq(FindAllIds(rows, scope))
            IN  /\ store' = StoreAfter(store, rows, ids, Len(ids))
                /\ last' = Call("find_all", "",
                                [NoArg EXCEPT !.scope = scope, !.found = found],
                                "none", "list",
                                [NoValue EXCEPT !.list = FindAllRet(rows, ids)],
                                <<"cursor", "select">>)
    /\ UNCHANGED <<rows, conns>>

\* Creds.find_one(creds_id)
FindOne(creds_id) ==
    /\ IF creds_id \in DOMAIN rows
       THEN /\ store' = UniqueCall(store, rows, rows[creds_id].type,
                                   rows[creds_id].content)
            /\ last' = Call("find_one", "", [NoArg EXCEPT !.id = creds_id],
                            "none", "ref",
                            [NoValue EXCEPT
                                !.ref = get_id(rows[creds_id].type,
                                               rows[creds_id].content)],
                            <<"cursor", "select", "close">>)
       ELSE /\ store' = store
            /\ last' = Call("find_one", "", [NoArg EXCEPT !.id = creds_id],
                            "none", "None", NoValue,
                            <<"cursor", "select", "close">>)
    /\ UNCHANGED <<rows, conns>>

Keys == {get_id(t, c) : t \in Types, c \in Contents}
ScopeArgs == {"None", "True", "False"}

\* The contents with the first secret: one content per user.
FirstContents == {c \in Contents : c[2] = 1}

\* Every call but an assignment of found, on credentials of one content per
\* user.
Next ==
    \/ \E t \in Types, c \in FirstContents : Construct(t, c)
    \/ \E k \in Keys : Save(k)
    \/ \E k \in Keys, c \in FirstContents : Edit(k, c)
    \/ \E k \in Keys, s \in BOOLEAN : SetScope(k, s)
    \/ \E k \in Keys : Connect(k)
    \/ \E k \in Keys : DeleteUnsaved(k)
    \/ \E k \in Keys, n \in 0..MaxConn : DeleteSaved(k, n)
    \/ \E k \in Keys : Unstore(k)
    \/ \E s \in ScopeArgs, f \in {None} \cup Endpoints : FindAll(s, f)
    \/ \E i \in 1..MaxId : FindOne(i)

Spec == Init /\ [][Next]_vars

\* Credentials of every content, several of one identity, and no connection.
NextSecrets ==
    \/ \E t \in Types, c \in Contents : Construct(t, c)
    \/ \E k \in Keys : Save(k)
    \/ \E k \in Keys, c \in Contents : Edit(k, c)
    \/ \E k \in Keys, s \in BOOLEAN : SetScope(k, s)
    \/ \E k \in Keys : DeleteUnsaved(k)
    \/ \E k \in Keys : DeleteSaved(k, 0)
    \/ \E k \in Keys : Unstore(k)
    \/ \E s \in ScopeArgs, f \in {None} \cup Endpoints : FindAll(s, f)
    \/ \E i \in 1..MaxId : FindOne(i)

SpecSecrets == Init /\ [][NextSecrets]_vars

\* Credentials of one content per user whose found is assigned, saved and
\* queried.
NextFound ==
    \/ \E t \in Types, c \in FirstContents : Construct(t, c)
    \/ \E k \in Keys : Save(k)
    \/ \E k \in Keys, s \in BOOLEAN : SetScope(k, s)
    \/ \E k \in Keys, f \in {None} \cup Endpoints : SetFound(k, f)
    \/ \E s \in ScopeArgs, f \in {None} \cup Endpoints : FindAll(s, f)
    \/ \E i \in 1..MaxId : FindOne(i)

SpecFound == Init /\ [][NextFound]_vars

\* Credentials constructed from the first content of a user and edited to any
\* content: an instance that carries another secret has been edited.
NextEdit ==
    \/ \E t \in Types, c \in FirstContents : Construct(t, c)
    \/ \E k \in Keys : Save(k)
    \/ \E k \in Keys, c \in Contents : Edit(k, c)
    \/ \E k \in Keys : DeleteUnsaved(k)
    \/ \E k \in Keys : DeleteSaved(k, 0)
    \/ \E k \in Keys : Unstore(k)

SpecEdit == Init /\ [][NextEdit]_vars

\* Credentials whose scope and found are assigned and saved, and constructed
\* again by a later process.
NextHydrate ==
    \/ \E t \in Types, c \in FirstContents : Construct(t, c)
    \/ \E k \in Keys : Save(k)
    \/ \E k \in Keys, s \in BOOLEAN : SetScope(k, s)
    \/ \E k \in Keys, f \in {None} \cup Endpoints : SetFound(k, f)
    \/ Restart

SpecHydrate == Init /\ [][NextHydrate]_vars

\* Two writers on one workspace: this process, and another that saves
\* credentials of its own.
NextRace ==
    \/ \E t \in Types, c \in Contents : Construct(t, c)
    \/ \E k \in Keys : Save(k)
    \/ \E k \in Keys, s \in BOOLEAN : SetScope(k, s)
    \/ \E t \in Types, c \in Contents : OtherSave(t, c)
    \/ \E i \in 1..MaxId : FindOne(i)

SpecRace == Init /\ [][NextRace]_vars

\* Method kinds of which one is the beginning of the other, and contents
\* whose identities make up for the difference.
Kinds == {"pass", "password"}
KindContents == {<<"bob", 1>>, <<"wordbob", 1>>}
KindKeys == {get_id(t, c) : t \in Kinds, c \in KindContents}

\* Credentials of these kinds, saved and deleted by one process after another.
NextKinds ==
    \/ \E t \in Kinds, c \in KindContents : Construct(t, c)
    \/ \E k \in KindKeys : Save(k)
    \/ \E k \in KindKeys : DeleteUnsaved(k)
    \/ \E k \in KindKeys : DeleteSaved(k, 0)
    \/ \E k \in KindKeys : Unstore(k)
    \/ Restart

SpecKinds == Init /\ [][NextKinds]_vars

-----------------------------------------------------------------------------
(* The claims *)

\* The number of rows of one (type, identifier) pair.
RowCount(t, ident) == Cardinality(ByIdentity(rows, t, ident))

\* C1: in every reachable state the creds table holds at most one row for each
\* (type, identifier) pair.
C1_OneRowPerIdentity ==
    \A i \in DOMAIN rows, j \in DOMAIN rows :
        (rows[i].type = rows[j].type /\ rows[i].identifier = rows[j].identifier)
            => i = j

\* C2: when a Credential is constructed, saved (the save inserting), and
\* constructed again from the same (methodKind, content), the second entity
\* has the id of the first, and the identity has exactly one row, also after
\* the second entity is saved.
C2_Dedup ==
    (last.scenario.phase \in {3, 4} /\ last.scenario.inserted) =>
        /\ store[last.self].id # None
        /\ RowCount(last.scenario.arg.t,
                    Identifier(AuthMethod(last.scenario.arg.t,
                                          last.scenario.arg.c))) = 1

Range(seq) == {seq[j] : j \in 1..Len(seq)}

\* The connections that reference the id of instance k.
Referencing(k) == {n \in DOMAIN conns : conns[n] = store[k].id}

\* C4: after delete() returns on a saved Credential, none of the Connections
\* that referenced it remains, its row is gone, and the report holds, per
\* kind, the union of what every Connection's delete() reported, plus the
\* credential's fingerprint under "Creds".
C4_CascadeComplete ==
    [][(last'.op = "delete" /\ last'.returned = "report") =>
        LET k == last'.self
            refs == Referencing(k)
        IN  /\ \A n \in refs : n \notin DOMAIN conns'
            /\ store[k].id \notin DOMAIN rows'
            /\ DOMAIN last'.value.report
                   = {"Creds"} \cup UNION {DOMAIN ConnectionReport(n) : n \in refs}
            /\ \A kind \in DOMAIN last'.value.report :
                   last'.value.report[kind]
                       = (IF kind = "Creds"
                          THEN {get_id(store[k].credsType, store[k].credsContent)}
                          ELSE {})
                         \cup UNION {ConnectionReport(n)[kind] :
                                       n \in {m \in refs :
                                                kind \in DOMAIN ConnectionReport(m)}}
    ]_vars

\* A delete() has returned a report that names two deleted Connections.
C4_Witness ==
    /\ last.op = "delete"
    /\ last.returned = "report"
    /\ "Connection" \in DOMAIN last.value.report
    /\ Cardinality(last.value.report["Connection"]) = 2
    /\ store[last.self].id \notin DOMAIN rows
    /\ conns = << >>

\* C5: delete() on a Credential whose id is None enumerates no Connection,
\* calls no codec delete, changes no row, performs no commit, and yields an
\* empty report.
C5_UnsavedDeleteNoOp ==
    [][(last'.op = "delete" /\ store[last'.self].id = None) =>
        /\ last'.steps = << >>
        /\ rows' = rows
        /\ conns' = conns
        /\ last'.err = "none"
        /\ last'.returned = "report"
        /\ last'.value.report = NoReport
    ]_vars

\* C6: when the delete() of a dependent Connection fails, the error reaches
\* the caller, the credential's row and codec side-state are untouched, and
\* nothing the aborted deletion did stays committed.
C6_AbortLeavesNothing ==
    [][(last'.op = "delete" /\ last'.err # "none") =>
        /\ last'.returned = "raised"
        /\ rows' = rows
        /\ "obj_delete" \notin Range(last'.steps)
        /\ conns' = conns
    ]_vars

\* C6 as amended: the error reaches the caller, the credential's row and
\* codec side-state are untouched and the instance is unchanged; the
\* Connections deleted before the failing one stay deleted, the failing one
\* and those after it stay.
C6_AbortKeepsCredential ==
    [][(last'.op = "delete" /\ last'.err # "none") =>
        LET found == ConnectionFindAll(conns, store[last'.self])
            done == Cardinality({j \in DOMAIN last'.steps :
                                    last'.steps[j] = "connection_delete"})
        IN  /\ last'.returned = "raised"
            /\ last'.err = "ConnectionError"
            /\ rows' = rows
            /\ store' = store
            /\ "obj_delete" \notin Range(last'.steps)
            /\ "row_delete" \notin Range(last'.steps)
            /\ done < Len(found)
            /\ DOMAIN conns' = DOMAIN conns \ {found[j] : j \in 1..done}
            /\ \A n \in DOMAIN conns' : conns'[n] = conns[n]
    ]_vars

\* A delete() was aborted by the second Connection after the first was
\* deleted: the credential's row is there, one Connection still references it.
C6_Witness ==
    /\ last.op = "delete"
    /\ last.err = "ConnectionError"
    /\ "connection_delete" \in Range(last.steps)
    /\ store[last.self].id \in DOMAIN rows
    /\ Cardinality(Referencing(last.self)) = 1

\* C7: save() right after save() on the same Credential changes neither its
\* id nor any row, nor the number of rows.
C7_ResaveIdempotent ==
    [][(last.op = "save" /\ last'.op = "save" /\ last'.self = last.self) =>
        /\ store'[last.self].id = store[last.self].id
        /\ rows' = rows
    ]_vars

\* The rows a scope argument of find_all selects.
ScopeMatches(scope) ==
    {i \in DOMAIN rows :
        \/ scope = "None"
        \/ scope = "True" /\ rows[i].scope = 1
        \/ scope = "False" /\ rows[i].scope = 0}

\* The instances a list of find_all names, one per row id of a sequence.
InstancesOf(ids) ==
    [j \in 1..Len(ids) |-> get_id(rows[ids[j]].type, rows[ids[j]].content)]

\* C8: find_all with a discovery endpoint E returns exactly the credentials
\* whose stored found is E's id and that the scope filter selects (stated for
\* the stores that hold a row found at E).
C8_FoundFilter ==
    (/\ last.op = "find_all"
     /\ last.arg.found # None
     /\ \E i \in DOMAIN rows : rows[i].found = last.arg.found) =>
        /\ last.err = "none"
        /\ last.returned = "list"
        /\ last.value.list
               = InstancesOf(SetToSeq({i \in ScopeMatches(last.arg.scope) :
                                          rows[i].found = last.arg.found}))

\* C9: find_all(scope=True) returns one credential per row of scope 1 and
\* none for a row of scope 0, find_all(scope=False) the converse, find_all()
\* one per row; each returned entity carries the id of its row.
C9_ScopeFilter ==
    (last.op = "find_all" /\ last.arg.found = None) =>
        LET ids == SetToSeq(ScopeMatches(last.arg.scope))
        IN  /\ last.returned = "list"
            /\ Len(last.value.list) = Len(ids)
            /\ \A j \in 1..Len(ids) :
                   /\ last.value.list[j] \in DOMAIN store
                   /\ store[last.value.list[j]].id = ids[j]

\* The call about to return is op on an instance that has an id no row has.
OnAbsentRow(op) ==
    /\ last'.op = op
    /\ store[last'.self].id # None
    /\ store[last'.self].id \notin DOMAIN rows

C11_FingerprintStable ==
    [][/\ \A t \in Types, c1 \in Contents, c2 \in Contents :
            Identifier(AuthMethod(t, c1)) = Identifier(AuthMethod(t, c2))
                => get_id(t, c1) = get_id(t, c2)
       /\ (last'.op = "delete" /\ last'.returned = "report") =>
            \A c0 \in FirstContents :
                (/\ get_id(store[last'.self].credsType, c0) = last'.self
                 /\ Identifier(AuthMethod(store[last'.self].credsType, c0))
                        = Identifier(store[last'.self].obj))
                => last'.value.report["Creds"]
                       = {get_id(store[last'.self].credsType, c0)}
    ]_vars

\* A delete() has returned the report of a credential that was constructed
\* from the first content of its user and edited to another secret since.
C11_Witness ==
    /\ last.op = "delete"
    /\ last.returned = "report"
    /\ store[last.self].credsContent[2] # 1
    /\ get_id(store[last.self].credsType, store[last.self].credsContent)
           = last.self
    /\ last.value.report["Creds"] = {last.self}

C13_SavePersists ==
    [][(/\ last'.op = "save"
        /\ \/ store[last'.self].id = None
           \/ store[last'.self].id \in DOMAIN rows) =>
        /\ store'[last'.self].id \in DOMAIN rows'
        /\ rows'[store'[last'.self].id] = RowOf(store'[last'.self])
    ]_vars

\* C14: when save() takes the INSERT path for an entity and another writer
\* has inserted a row of the same (methodKind, identity) since the entity was
\* constructed, the insert is a no-op: no second row is created and the
\* entity's id becomes the id of the row that was there.
C14_InsertRaceResolved ==
    [][(/\ last'.op = "save"
        /\ store[last'.self].id = None
        /\ ByIdentity(rows, store[last'.self].credsType,
                      Identifier(store[last'.self].obj)) # {}) =>
        /\ rows' = rows
        /\ store'[last'.self].id
               \in ByIdentity(rows, store[last'.self].credsType,
                              Identifier(store[last'.self].obj))
    ]_vars

\* The positions of a step in the steps of a call.
StepsAt(steps, x) == {j \in DOMAIN steps : steps[j] = x}

\* Every x among the steps comes before every y.
Before(steps, x, y) ==
    \A i \in StepsAt(steps, x), j \in StepsAt(steps, y) : i < j

\* C15: within one delete() of a saved Credential, the Connections that
\* reference it are enumerated and each one's delete() completes, then the
\* codec object's delete() is called, then the row is removed, then the
\* commit happens, then the fingerprint is merged into the report; the row is
\* not removed while a Connection referencing it exists.
C15_DeleteOrder ==
    [][(last'.op = "delete" /\ store[last'.self].id # None) =>
        LET st == last'.steps
            refs == Referencing(last'.self)
        IN  /\ st[1] = "enumerate"
            /\ Before(st, "enumerate", "connection_delete")
            /\ Before(st, "connection_delete", "obj_delete")
            /\ Before(st, "obj_delete", "row_delete")
            /\ Before(st, "row_delete", "commit")
            /\ Before(st, "commit", "merge")
            /\ (last'.returned = "report") =>
                   /\ Cardinality(StepsAt(st, "obj_delete")) = 1
                   /\ Cardinality(StepsAt(st, "row_delete")) = 1
                   /\ Cardinality(StepsAt(st, "commit")) = 1
                   /\ Cardinality(StepsAt(st, "merge")) = 1
            /\ (StepsAt(st, "row_delete") # {}) =>
                   /\ Cardinality(StepsAt(st, "connection_delete"))
                          = Cardinality(refs)
                   /\ \A n \in DOMAIN conns' : conns'[n] # store[last'.self].id
                   /\ store[last'.self].id \notin DOMAIN rows'
            /\ (StepsAt(st, "row_delete") = {}) => rows' = rows
    ]_vars

\* A delete() has run every step after the delete() of two Connections.
C15_Witness ==
    /\ last.op = "delete"
    /\ Cardinality(StepsAt(last.steps, "connection_delete")) = 2
    /\ StepsAt(last.steps, "merge") = {Len(last.steps)}
    /\ StepsAt(last.steps, "row_delete") # {}

\* The call about to return is an edit() of an instance whose id names a row,
\* to a content of another identity.
OnIdentityEdit ==
    /\ last'.op = "edit"
    /\ store[last'.self].id \in DOMAIN rows
    /\ Identifier(AuthMethod(store[last'.self].credsType, last'.arg.c))
           # Identifier(store[last'.self].obj)

\* C16: edit() on a saved Credential that changes the derived identity keeps
\* the id and the number of rows, the row of that id carries the new content
\* and the new identifier, and the old identity no longer has a row.
C16_EditReusesRow ==
    [][OnIdentityEdit =>
        LET self == store[last'.self]
        IN  /\ store'[last'.self].id = self.id
            /\ Cardinality(DOMAIN rows') = Cardinality(DOMAIN rows)
            /\ rows'[self.id].content = last'.arg.c
            /\ rows'[self.id].identifier
                   = Identifier(AuthMethod(self.credsType, last'.arg.c))
            /\ ByIdentity(rows', self.credsType, Identifier(self.obj)) = {}
    ]_vars

\* C17: when an operation ends, on whatever exit path, every cursor it
\* acquired has been closed.
C17_CursorsReleased ==
    Cardinality(StepsAt(last.steps, "cursor"))
        = Cardinality(StepsAt(last.steps, "close"))

\* C18: once delete() has completed on an instance, no later save(), edit()
\* or delete() on that instance creates, changes or removes a row.
C18_NoUndelete ==
    [][(/\ last.dead # ""
        /\ last'.self = last.dead
        /\ last'.op \in {"save", "edit", "delete"}) =>
        rows' = rows
    ]_vars

\* C19: find_one(i) returns a Credential whose id is i when the table has a
\* row of id i, and None when it has none.
C19_FindOneById ==
    (last.op = "find_one") =>
        IF last.arg.id \in DOMAIN rows
        THEN /\ last.returned = "ref"
             /\ last.value.ref \in DOMAIN store
             /\ store[last.value.ref].id = last.arg.id
        ELSE last.returned = "None"

\* C20: with a collision-free hash, two credentials of different
\* (methodKind, identity) pairs have different fingerprints.
C20_FingerprintUnambiguous ==
    \A i \in DOMAIN rows, j \in DOMAIN rows :
        (<<rows[i].type, rows[i].identifier>>
            # <<rows[j].type, rows[j].identifier>>)
        => get_id(rows[i].type, rows[i].content)
               # get_id(rows[j].type, rows[j].content)

====
